---- MODULE Spec2Model ----
(***************************************************************************)
(* OmniChat backend (backend/server.py): the message endpoints             *)
(* create_message and ai_chat_response, the user endpoints create_user and *)
(* update_user_status, the document store they write to, and the Socket.IO *)
(* room registry driven by the connect / disconnect / join_conversation /  *)
(* leave_conversation / typing_* event handlers.                           *)
(*                                                                         *)
(* Every `await` of a handler is a point where other handlers may run, so  *)
(* each HTTP request is a small process whose position is reqs[r].pc.      *)
(* The socket handlers have no suspension point that matters (enter_room,  *)
(* leave_room and the participant snapshot of emit run synchronously on    *)
(* the event loop), so each is one action.                                 *)
(***************************************************************************)
EXTENDS Integers, Sequences, FiniteSets, TLC

\* ---------------------------------------------------------------- bounds
MaxClock == 1    \* readings of datetime.now() go from 0 to MaxClock
MaxExtra == 1    \* longest content is PreviewLen + MaxExtra characters

\* ------------------------------------------------------ program constants
PreviewLen == 50

Ellipsis == <<".", ".", ".">>
AIPrefix == <<"A", "I", ":", " ">>
AISenderId   == "ai-assistant"
AISenderName == "AI Assistant"

\* ------------------------------------------------------------ input sets
Sids    == {"s1", "s2"}
ConvIds == {"c1", "c2"}
NoConv  == "no_conv"          \* data.get('conversation_id') is None / falsy
NoSid   == "no_sid"           \* emit(...) without skip_sid
Reqs    == {1, 2}             \* HTTP requests, numbered in arrival order
RoomReqs == {1}               \* the requests SpecRooms lets in
HumanSenders == {"u1"}
UserIds == {"u1", "u2"}
NoUser  == "no_user"
StatusReqs == {1}             \* update_user_status requests
StatusInputs == {"online", "typing", "busy"}   \* status: str, any text

\* A text of n characters; the characters after position PreviewLen differ
\* from the first ones so that a truncation is visible.
Content(n) == [i \in 1..n |-> IF i <= PreviewLen THEN "a" ELSE "b"]
ContentLens == PreviewLen .. (PreviewLen + MaxExtra)
Contents == {Content(n) : n \in ContentLens}
ShortContent == Content(1)
Prompts  == {ShortContent}

None == <<>>
Some(x) == <<x>>

VARIABLES
  now,            \* current reading of datetime.now(timezone.utc)
  conversations,  \* db.conversations: id -> document
  messages,       \* db.messages, in insertion order
  reqs,           \* the HTTP requests: position and locals of each handler
  connected,      \* sids of the open Socket.IO sessions
  rooms,          \* Socket.IO manager: room name -> set of sids
  lastOp,         \* history: what last changed each sid's membership of each room
  lastEmit,       \* history: the most recent sio.emit and whom it reached
  users,          \* db.users: id -> document
  sreqs           \* the update_user_status requests: position and arguments

vars == <<now, conversations, messages, reqs, connected, rooms, lastOp, lastEmit,
          users, sreqs>>

statusVars == <<users, sreqs>>

\* The room every sid of the namespace is in: emit(...) without room=.
AllRoom == "all_sids"

RoomNames == ConvIds \cup Sids \cup {AllRoom}

\* ------------------------------------------------------------- documents
\* Message(...) of server.py:54-61; id stands for the fresh uuid4.
Message(id, sender_id, sender_username, content, message_type, conversation_id) ==
  [id |-> id, sender_id |-> sender_id, sender_username |-> sender_username,
   content |-> content, message_type |-> message_type,
   timestamp |-> now, conversation_id |-> conversation_id]

\* Conversation(...) of server.py:70-76; writer is history (the request whose
\* summary update was applied last, 0 if none).
Conversation(exists) ==
  [exists |-> exists, last_message |-> None, last_activity |-> now, writer |-> 0]

\* User(...) of server.py:41-47.
User(exists) == [exists |-> exists, status |-> "offline"]

IdleStatusReq ==
  [pc |-> "idle", user_id |-> NoUser, status |-> "none", write |-> "none",
   emitted |-> FALSE, result |-> "none"]

IdleReq ==
  [kind |-> "none", pc |-> "idle", conv |-> NoConv, content |-> <<>>,
   msg |-> None, upd |-> None, gen |-> "none", ins |-> "none",
   updRes |-> "none", emits |-> <<>>, result |-> "none", cut |-> FALSE]

NoEmit ==
  [seq |-> 0, event |-> "none", room |-> NoConv, skip |-> NoSid,
   targets |-> {}, msgid |-> 0, typing |-> FALSE, origin |-> NoSid,
   conversation_id |-> NoConv, user_id |-> NoUser, status |-> "none"]

\* ------------------------------------------------------------ conversions
\* Variant: the test is >= instead of >.
HumanPreviewGe(content) ==
  IF Len(content) >= PreviewLen
    THEN SubSeq(content, 1, PreviewLen) \o Ellipsis
    ELSE content

\* server.py:153: content[:50] + "..." if len(content) > 50 else content
HumanPreview(content) ==
  IF Len(content) > PreviewLen
    THEN SubSeq(content, 1, PreviewLen) \o Ellipsis
    ELSE content

\* Variant: the ellipsis is forgotten on the AI path.
AiPreviewNoEllipsis(ai_response) ==
  AIPrefix \o (IF Len(ai_response) > PreviewLen
                 THEN SubSeq(ai_response, 1, PreviewLen)
                 ELSE ai_response)

\* server.py:186: "AI: " + (r[:50] + "..." if len(r) > 50 else r)
AiPreview(ai_response) ==
  AIPrefix \o (IF Len(ai_response) > PreviewLen
                 THEN SubSeq(ai_response, 1, PreviewLen) \o Ellipsis
                 ELSE ai_response)

\* ------------------------------------------------------------- Socket.IO
\* sio.emit(event, payload, room=room, skip_sid=skip): the manager sends to
\* the participants of the room at the time of the call, except skip.
Participants(room, skip) == rooms[room] \ {skip}

\* seq only tells two successive emits apart; origin is the sid whose event
\* handler made the call (NoSid for an HTTP handler).  The payload fields
\* conversation_id, user_id and status are filled in by the events that
\* carry them.
EmitRecord(event, room, skip, msgid, typing, origin) ==
  [seq |-> 1 - lastEmit.seq, event |-> event, room |-> room, skip |-> skip,
   targets |-> Participants(room, skip), msgid |-> msgid, typing |-> typing,
   origin |-> origin,
   conversation_id |-> NoConv, user_id |-> NoUser, status |-> "none"]

Init ==
  /\ now = 0
  /\ conversations = [c \in ConvIds |-> Conversation(c = "c1")]
  /\ messages = <<>>
  /\ reqs = [r \in Reqs |-> IdleReq]
  /\ connected = {}
  /\ rooms = [n \in RoomNames |-> {}]
  /\ lastOp = [c \in Sids |-> [r \in ConvIds |-> "none"]]
  /\ lastEmit = NoEmit
  /\ users = [u \in UserIds |-> User(u = "u1")]
  /\ sreqs = [q \in StatusReqs |-> IdleStatusReq]

\* The clock advances between any two steps.
Tick ==
  /\ now < MaxClock
  /\ now' = now + 1
  /\ UNCHANGED <<conversations, messages, reqs, connected, rooms, lastOp, lastEmit, statusVars>>

\* --------------------------------------------------------- HTTP handlers
\* Requests are numbered in the order they arrive.
CanStart(r) ==
  /\ reqs[r].pc = "idle"
  /\ \A q \in Reqs : q < r => reqs[q].pc # "idle"

\* create_conversation, server.py:126-131.  The id is a fresh uuid4: no
\* request can have named it before the conversation exists.
CreateConversation(c) ==
  /\ ~conversations[c].exists
  /\ \A r \in Reqs : reqs[r].conv # c
  /\ conversations' = [conversations EXCEPT ![c] = Conversation(TRUE)]
  /\ UNCHANGED <<now, messages, reqs, connected, rooms, lastOp, lastEmit, statusVars>>

\* create_message up to the first await: server.py:144-147.
StartCreate(r, conv, content, sender) ==
  /\ CanStart(r)
  /\ reqs' = [reqs EXCEPT ![r] =
       [IdleReq EXCEPT !.kind = "human", !.pc = "insert", !.conv = conv,
                       !.content = content,
                       !.msg = Some(Message(r, sender, sender, content, "text", conv))]]
  /\ UNCHANGED <<now, conversations, messages, connected, rooms, lastOp, lastEmit,
               statusVars>>

\* ai_chat_response up to the await of send_message: server.py:163-168.
StartAi(r, conv, prompt) ==
  /\ CanStart(r)
  /\ reqs' = [reqs EXCEPT ![r] =
       [IdleReq EXCEPT !.kind = "ai", !.pc = "generate", !.conv = conv,
                       !.content = prompt]]
  /\ UNCHANGED <<now, conversations, messages, connected, rooms, lastOp, lastEmit,
               statusVars>>

\* send_message returned ai_response; the AI message is built: server.py:168-180.
GenOk(r, ai_response) ==
  /\ reqs[r].pc = "generate"
  /\ reqs' = [reqs EXCEPT ![r].pc = "insert", ![r].gen = "ok",
       ![r].msg = Some(Message(r, AISenderId, AISenderName, ai_response,
                               "ai_response", reqs[r].conv))]
  /\ UNCHANGED <<now, conversations, messages, connected, rooms, lastOp, lastEmit,
               statusVars>>

\* Variant: a placeholder reply is stored when generation fails.
GenFailPlaceholder(r) ==
  /\ reqs[r].pc = "generate"
  /\ reqs' = [reqs EXCEPT ![r].pc = "insert", ![r].gen = "fail",
       ![r].msg = Some(Message(r, AISenderId, AISenderName, ShortContent,
                               "ai_response", reqs[r].conv))]
  /\ UNCHANGED <<now, conversations, messages, connected, rooms, lastOp, lastEmit,
               statusVars>>

\* send_message raised: the except clause returns the error payload,
\* server.py:195-197.
GenFail(r) ==
  /\ reqs[r].pc = "generate"
  /\ reqs' = [reqs EXCEPT ![r].pc = "done", ![r].gen = "fail",
                          ![r].result = "error_payload"]
  /\ UNCHANGED <<now, conversations, messages, connected, rooms, lastOp, lastEmit,
               statusVars>>

\* Variant: ai_chat_response lets the exception through like create_message.
RaisedAlways500(r) == "http_500"

\* What a raise inside the handler turns into: create_message has no handler
\* (the framework answers 500), ai_chat_response catches every Exception
\* (server.py:195-197).
Raised(r) == IF reqs[r].kind = "ai" THEN "error_payload" ELSE "http_500"

\* Variant: the insert is retried after it already went through.
InsertOkTwice(r) ==
  /\ reqs[r].pc = "insert"
  /\ messages' = Append(Append(messages, reqs[r].msg[1]), reqs[r].msg[1])
  /\ reqs' = [reqs EXCEPT ![r].pc = "update", ![r].ins = "ok"]
  /\ UNCHANGED <<now, conversations, connected, rooms, lastOp, lastEmit, statusVars>>

\* db.messages.insert_one succeeded: server.py:147 / 180.
InsertOk(r) ==
  /\ reqs[r].pc = "insert"
  /\ messages' = Append(messages, reqs[r].msg[1])
  /\ reqs' = [reqs EXCEPT ![r].pc = "update", ![r].ins = "ok"]
  /\ UNCHANGED <<now, conversations, connected, rooms, lastOp, lastEmit, statusVars>>

\* Variant: the failure of the insert is swallowed and the handler goes on.
InsertFailSwallowed(r) ==
  /\ reqs[r].pc = "insert"
  /\ reqs' = [reqs EXCEPT ![r].pc = "update", ![r].ins = "fail"]
  /\ UNCHANGED <<now, conversations, messages, connected, rooms, lastOp, lastEmit,
               statusVars>>

\* db.messages.insert_one raised.
InsertFail(r) ==
  /\ reqs[r].pc = "insert"
  /\ reqs' = [reqs EXCEPT ![r].pc = "done", ![r].ins = "fail",
                          ![r].result = Raised(r)]
  /\ UNCHANGED <<now, conversations, messages, connected, rooms, lastOp, lastEmit,
               statusVars>>

\* The handler resumes and builds the update document: server.py:150-156 /
\* 183-189.  The clock is read again here.
SummaryDoc(r) ==
  [last_message |-> IF reqs[r].kind = "ai"
                      THEN AiPreview(reqs[r].msg[1].content)
                      ELSE HumanPreview(reqs[r].content),
   last_activity |-> now]

IssueUpdate(r) ==
  /\ reqs[r].pc = "update"
  /\ reqs' = [reqs EXCEPT ![r].pc = "updating", ![r].updRes = "issued",
                          ![r].upd = Some(SummaryDoc(r))]
  /\ UNCHANGED <<now, conversations, messages, connected, rooms, lastOp, lastEmit,
               statusVars>>

\* db.conversations.update_one({"id": conv}, {"$set": ...}) applied by the
\* store; a filter that matches nothing updates nothing and is no error.
UpdateOk(r) ==
  /\ reqs[r].pc = "updating"
  /\ conversations' =
       IF conversations[reqs[r].conv].exists
         THEN [conversations EXCEPT
                 ![reqs[r].conv].last_message = Some(reqs[r].upd[1].last_message),
                 ![reqs[r].conv].last_activity = reqs[r].upd[1].last_activity,
                 ![reqs[r].conv].writer = r]
         ELSE conversations
  /\ reqs' = [reqs EXCEPT ![r].pc = "emit", ![r].updRes = "ok"]
  /\ UNCHANGED <<now, messages, connected, rooms, lastOp, lastEmit, statusVars>>

\* Variant: the failure of the update is swallowed and the handler goes on.
UpdateFailSwallowed(r) ==
  /\ reqs[r].pc = "updating"
  /\ reqs' = [reqs EXCEPT ![r].pc = "emit", ![r].updRes = "fail"]
  /\ UNCHANGED <<now, conversations, messages, connected, rooms, lastOp, lastEmit,
                 statusVars>>

\* db.conversations.update_one raised.
UpdateFail(r) ==
  /\ reqs[r].pc = "updating"
  /\ reqs' = [reqs EXCEPT ![r].pc = "done", ![r].updRes = "fail",
                          ![r].result = Raised(r)]
  /\ UNCHANGED <<now, conversations, messages, connected, rooms, lastOp, lastEmit,
               statusVars>>

\* Variant: room= is left out, so the event goes to every open session.
EmitNewMessageGlobal(r) ==
  /\ reqs[r].pc = "emit"
  /\ lastEmit' = [EmitRecord("new_message", reqs[r].conv, NoSid,
                            reqs[r].msg[1].id, FALSE, NoSid)
                   EXCEPT !.targets = connected]
  /\ reqs' = [reqs EXCEPT ![r].pc = "done", ![r].result = "message",
                          ![r].emits = Append(@, [event |-> lastEmit'.event,
                                                  room |-> lastEmit'.room,
                                                  skip |-> lastEmit'.skip])]
  /\ UNCHANGED <<now, conversations, messages, connected, rooms, lastOp, statusVars>>

\* sio.emit('new_message', message, room=conversation_id) and the return:
\* server.py:159-160 / 192-193.
EmitNewMessage(r) ==
  /\ reqs[r].pc = "emit"
  /\ lastEmit' = EmitRecord("new_message", reqs[r].conv, NoSid,
                           reqs[r].msg[1].id, FALSE, NoSid)
  /\ reqs' = [reqs EXCEPT ![r].pc = "done", ![r].result = "message",
                          ![r].emits = Append(@, [event |-> lastEmit'.event,
                                                  room |-> lastEmit'.room,
                                                  skip |-> lastEmit'.skip])]
  /\ UNCHANGED <<now, conversations, messages, connected, rooms, lastOp, statusVars>>

\* ------------------------------------------------------ Socket.IO events
\* connect, server.py:200-202: the server puts the new sid in its own room
\* and in the room of all sids.
Connect(sid) ==
  /\ sid \notin connected
  /\ connected' = connected \cup {sid}
  /\ rooms' = [rooms EXCEPT ![sid] = @ \cup {sid}, ![AllRoom] = @ \cup {sid}]
  /\ UNCHANGED <<now, conversations, messages, reqs, lastOp, lastEmit, statusVars>>

\* Variant: the replies being generated are cancelled with the session.
DisconnectCancels(sid) ==
  /\ sid \in connected
  /\ connected' = connected \ {sid}
  /\ rooms' = [n \in RoomNames |-> rooms[n] \ {sid}]
  /\ lastOp' = [lastOp EXCEPT ![sid] =
       [r \in ConvIds |-> IF lastOp[sid][r] = "join" THEN "disc" ELSE "none"]]
  /\ reqs' = [r \in Reqs |-> IF reqs[r].pc = "generate" /\ sid \in rooms[reqs[r].conv]
                               THEN [reqs[r] EXCEPT !.cut = TRUE, !.pc = "done",
                                                    !.result = "cancelled"]
                               ELSE reqs[r]]
  /\ UNCHANGED <<now, conversations, messages, lastEmit, statusVars>>

\* Variant: closing a session marks the users offline.
DisconnectSetsOffline(sid) ==
  /\ sid \in connected
  /\ connected' = connected \ {sid}
  /\ rooms' = [n \in RoomNames |-> rooms[n] \ {sid}]
  /\ lastOp' = [lastOp EXCEPT ![sid] =
       [r \in ConvIds |-> IF lastOp[sid][r] = "join" THEN "disc" ELSE "none"]]
  /\ reqs' = [r \in Reqs |-> IF reqs[r].pc = "generate" /\ sid \in rooms[reqs[r].conv]
                               THEN [reqs[r] EXCEPT !.cut = TRUE]
                               ELSE reqs[r]]
  /\ users' = [u \in UserIds |-> [users[u] EXCEPT !.status = "offline"]]
  /\ UNCHANGED <<now, conversations, messages, lastEmit, sreqs>>

\* Variant: the rooms of the sid are not cleaned up.
DisconnectNoPurge(sid) ==
  /\ sid \in connected
  /\ connected' = connected \ {sid}
  /\ lastOp' = [lastOp EXCEPT ![sid] =
       [r \in ConvIds |-> IF lastOp[sid][r] = "join" THEN "disc" ELSE "none"]]
  /\ reqs' = [r \in Reqs |-> IF reqs[r].pc = "generate" /\ sid \in rooms[reqs[r].conv]
                               THEN [reqs[r] EXCEPT !.cut = TRUE]
                               ELSE reqs[r]]
  /\ UNCHANGED <<now, conversations, messages, rooms, lastEmit, statusVars>>

\* disconnect, server.py:204-206: the handler only prints; the server then
\* removes the sid from every room it is in.  lastOp keeps "disc" for the
\* rooms the sid was a member of at that moment, and cut (history) marks the
\* AI replies for one of those rooms whose generation was in progress; the
\* requests themselves are left alone.
Disconnect(sid) ==
  /\ sid \in connected
  /\ connected' = connected \ {sid}
  /\ rooms' = [n \in RoomNames |-> rooms[n] \ {sid}]
  /\ lastOp' = [lastOp EXCEPT ![sid] =
       [r \in ConvIds |-> IF lastOp[sid][r] = "join" THEN "disc" ELSE "none"]]
  /\ reqs' = [r \in Reqs |-> IF reqs[r].pc = "generate" /\ sid \in rooms[reqs[r].conv]
                               THEN [reqs[r] EXCEPT !.cut = TRUE]
                               ELSE reqs[r]]
  /\ UNCHANGED <<now, conversations, messages, lastEmit, statusVars>>

\* Variant: the acknowledgement is sent to the conversation's room.
JoinConversationAckToRoom(sid, conversation_id) ==
  /\ sid \in connected
  /\ IF conversation_id # NoConv
       THEN /\ rooms' = [rooms EXCEPT ![conversation_id] = @ \cup {sid}]
            /\ lastOp' = [lastOp EXCEPT ![sid][conversation_id] = "join"]
            /\ lastEmit' = [EmitRecord("joined_conversation", conversation_id,
                                       NoSid, 0, FALSE, sid)
                              EXCEPT !.conversation_id = conversation_id,
                                     !.targets = rooms'[conversation_id]]
       ELSE UNCHANGED <<rooms, lastOp, lastEmit>>
  /\ UNCHANGED <<now, conversations, messages, reqs, connected, statusVars>>

\* join_conversation, server.py:208-213.
JoinConversation(sid, conversation_id) ==
  /\ sid \in connected
  /\ IF conversation_id # NoConv
       THEN /\ rooms' = [rooms EXCEPT ![conversation_id] = @ \cup {sid}]
            /\ lastOp' = [lastOp EXCEPT ![sid][conversation_id] = "join"]
            /\ lastEmit' = [EmitRecord("joined_conversation", sid, NoSid, 0, FALSE, sid)
                              EXCEPT !.conversation_id = conversation_id]
       ELSE UNCHANGED <<rooms, lastOp, lastEmit>>
  /\ UNCHANGED <<now, conversations, messages, reqs, connected, statusVars>>

\* Variant: the sid leaves its own room instead of the conversation's.
LeaveConversationWrongRoom(sid, conversation_id) ==
  /\ sid \in connected
  /\ IF conversation_id # NoConv
       THEN /\ rooms' = [rooms EXCEPT ![sid] = @ \ {sid}]
            /\ lastOp' = [lastOp EXCEPT ![sid][conversation_id] =
                            IF @ = "join" THEN "join_leave" ELSE @]
       ELSE UNCHANGED <<rooms, lastOp>>
  /\ UNCHANGED <<now, conversations, messages, reqs, connected, lastEmit, statusVars>>

\* leave_conversation, server.py:215-219.
LeaveConversation(sid, conversation_id) ==
  /\ sid \in connected
  /\ IF conversation_id # NoConv
       THEN /\ rooms' = [rooms EXCEPT ![conversation_id] = @ \ {sid}]
            /\ lastOp' = [lastOp EXCEPT ![sid][conversation_id] =
                            IF @ = "join" THEN "join_leave" ELSE @]
       ELSE UNCHANGED <<rooms, lastOp>>
  /\ UNCHANGED <<now, conversations, messages, reqs, connected, lastEmit, statusVars>>

\* Variant: skip_sid is left out.
TypingStartNoSkip(sid, conversation_id) ==
  /\ sid \in connected
  /\ IF conversation_id # NoConv
       THEN lastEmit' = EmitRecord("user_typing", conversation_id, NoSid, 0, TRUE, sid)
       ELSE UNCHANGED lastEmit
  /\ UNCHANGED <<now, conversations, messages, reqs, connected, rooms, lastOp, statusVars>>

\* typing_start, server.py:221-231.
TypingStart(sid, conversation_id) ==
  /\ sid \in connected
  /\ IF conversation_id # NoConv
       THEN lastEmit' = EmitRecord("user_typing", conversation_id, sid, 0, TRUE, sid)
       ELSE UNCHANGED lastEmit
  /\ UNCHANGED <<now, conversations, messages, reqs, connected, rooms, lastOp, statusVars>>

\* typing_stop, server.py:233-241.
TypingStop(sid, conversation_id) ==
  /\ sid \in connected
  /\ IF conversation_id # NoConv
       THEN lastEmit' = EmitRecord("user_typing", conversation_id, sid, 0, FALSE, sid)
       ELSE UNCHANGED lastEmit
  /\ UNCHANGED <<now, conversations, messages, reqs, connected, rooms, lastOp, statusVars>>

\* ------------------------------------------------------ user endpoints
\* create_user, server.py:105-110.  The id is a fresh uuid4: no request can
\* have named it before the user exists.
CreateUser(u) ==
  /\ ~users[u].exists
  /\ \A q \in StatusReqs : sreqs[q].user_id # u
  /\ users' = [users EXCEPT ![u] = User(TRUE)]
  /\ UNCHANGED <<now, conversations, messages, reqs, connected, rooms, lastOp,
                 lastEmit, sreqs>>

\* update_user_status up to the await of update_one: server.py:117-122.
\* status is a plain str: no value is rejected.
StartStatus(q, user_id, status) ==
  /\ sreqs[q].pc = "idle"
  /\ sreqs' = [sreqs EXCEPT ![q] =
       [IdleStatusReq EXCEPT !.pc = "write", !.user_id = user_id,
                             !.status = status]]
  /\ UNCHANGED <<now, conversations, messages, reqs, connected, rooms, lastOp,
                 lastEmit, users>>

\* db.users.update_one({"id": user_id}, {"$set": {"status": status}}) applied
\* by the store; a filter that matches nothing updates nothing and is no
\* error.
StatusWriteOk(q) ==
  /\ sreqs[q].pc = "write"
  /\ users' = IF users[sreqs[q].user_id].exists
                THEN [users EXCEPT ![sreqs[q].user_id].status = sreqs[q].status]
                ELSE users
  /\ sreqs' = [sreqs EXCEPT ![q].pc = "emit", ![q].write = "ok"]
  /\ UNCHANGED <<now, conversations, messages, reqs, connected, rooms, lastOp,
                 lastEmit>>

\* Variant: the failure of the write is swallowed and the handler goes on.
StatusWriteFailSwallowed(q) ==
  /\ sreqs[q].pc = "write"
  /\ sreqs' = [sreqs EXCEPT ![q].pc = "emit", ![q].write = "fail"]
  /\ UNCHANGED <<now, conversations, messages, reqs, connected, rooms, lastOp,
                 lastEmit, users>>

\* db.users.update_one raised: the exception leaves the handler, the
\* framework answers 500 (server.py:119).
StatusWriteFail(q) ==
  /\ sreqs[q].pc = "write"
  /\ sreqs' = [sreqs EXCEPT ![q].pc = "done", ![q].write = "fail",
                            ![q].result = "http_500"]
  /\ UNCHANGED <<now, conversations, messages, reqs, connected, rooms, lastOp,
                 lastEmit, users>>

\* sio.emit('user_status_changed', {...}) without room= and the return:
\* server.py:123-124.
EmitStatus(q) ==
  /\ sreqs[q].pc = "emit"
  /\ lastEmit' = [EmitRecord("user_status_changed", AllRoom, NoSid, 0, FALSE, NoSid)
                    EXCEPT !.user_id = sreqs[q].user_id, !.status = sreqs[q].status]
  /\ sreqs' = [sreqs EXCEPT ![q].pc = "done", ![q].emitted = TRUE,
                            ![q].result = "success"]
  /\ UNCHANGED <<now, conversations, messages, reqs, connected, rooms, lastOp,
                 users>>

\* ------------------------------------------------------- specifications
\* The message pipeline: both endpoints, the store and the clock.
NextPipeline ==
  \/ Tick
  \/ \E c \in ConvIds : CreateConversation(c)
  \/ \E r \in Reqs, conv \in ConvIds, content \in Contents, s \in HumanSenders :
       StartCreate(r, conv, content, s)
  \/ \E r \in Reqs, conv \in ConvIds, p \in Prompts : StartAi(r, conv, p)
  \/ \E r \in Reqs, t \in Contents : GenOk(r, t)
  \/ \E r \in Reqs : GenFail(r)
  \/ \E r \in Reqs : InsertOk(r)
  \/ \E r \in Reqs : InsertFail(r)
  \/ \E r \in Reqs : IssueUpdate(r)
  \/ \E r \in Reqs : UpdateOk(r)
  \/ \E r \in Reqs : UpdateFail(r)
  \/ \E r \in Reqs : EmitNewMessage(r)

SpecPipeline == Init /\ [][NextPipeline]_vars

\* The room registry: the Socket.IO events, and the endpoints as the source
\* of new_message broadcasts (one request, one text, no clock).
NextRooms ==
  \/ \E s \in Sids : Connect(s)
  \/ \E s \in Sids : Disconnect(s)
  \/ \E s \in Sids, c \in ConvIds \cup {NoConv} : JoinConversation(s, c)
  \/ \E s \in Sids, c \in ConvIds \cup {NoConv} : LeaveConversation(s, c)
  \/ \E s \in Sids, c \in ConvIds \cup {NoConv} : TypingStart(s, c)
  \/ \E s \in Sids, c \in ConvIds \cup {NoConv} : TypingStop(s, c)
  \/ \E r \in RoomReqs, conv \in ConvIds, s \in HumanSenders :
       StartCreate(r, conv, ShortContent, s)
  \/ \E r \in RoomReqs, conv \in ConvIds, p \in Prompts : StartAi(r, conv, p)
  \/ \E r \in RoomReqs : GenOk(r, ShortContent)
  \/ \E r \in RoomReqs : GenFail(r)
  \/ \E r \in RoomReqs : InsertOk(r)
  \/ \E r \in RoomReqs : InsertFail(r)
  \/ \E r \in RoomReqs : IssueUpdate(r)
  \/ \E r \in RoomReqs : UpdateOk(r)
  \/ \E r \in RoomReqs : UpdateFail(r)
  \/ \E r \in RoomReqs : EmitNewMessage(r)

SpecRooms == Init /\ [][NextRooms]_vars

\* Presence: the user endpoints and the sessions that receive the status
\* broadcast.
NextStatus ==
  \/ \E s \in Sids : Connect(s)
  \/ \E s \in Sids : Disconnect(s)
  \/ \E s \in Sids, c \in ConvIds \cup {NoConv} : JoinConversation(s, c)
  \/ \E u \in UserIds : CreateUser(u)
  \/ \E q \in StatusReqs, u \in UserIds, st \in StatusInputs : StartStatus(q, u, st)
  \/ \E q \in StatusReqs : StatusWriteOk(q)
  \/ \E q \in StatusReqs : StatusWriteFail(q)
  \/ \E q \in StatusReqs : EmitStatus(q)

SpecStatus == Init /\ [][NextStatus]_vars

\* An AI reply in flight while sessions come and go.  A handler that is ready
\* to run is run by the event loop, and an awaited call returns or raises.
AiStep(r) ==
  \/ GenOk(r, ShortContent)
  \/ GenFail(r)
  \/ InsertOk(r)
  \/ InsertFail(r)
  \/ IssueUpdate(r)
  \/ UpdateOk(r)
  \/ UpdateFail(r)
  \/ EmitNewMessage(r)

NextAi ==
  \/ \E s \in Sids : Connect(s)
  \/ \E s \in Sids : Disconnect(s)
  \/ \E s \in Sids, c \in ConvIds : JoinConversation(s, c)
  \/ \E r \in RoomReqs, conv \in ConvIds, p \in Prompts : StartAi(r, conv, p)
  \/ \E r \in RoomReqs : AiStep(r)

SpecAiFair ==
  Init /\ [][NextAi]_vars /\ \A r \in RoomReqs : WF_vars(AiStep(r))

Next == NextPipeline \/ NextRooms \/ NextStatus \/ NextAi

Spec == Init /\ [][Next]_vars

TypeOK ==
  /\ now \in 0..MaxClock
  /\ connected \subseteq Sids
  /\ \A n \in RoomNames : rooms[n] \subseteq Sids
  /\ Len(messages) <= Cardinality(Reqs)

\* ------------------------------------------------------------ properties
Humans == {r \in Reqs : reqs[r].kind = "human"}
Ais    == {r \in Reqs : reqs[r].kind = "ai"}

\* The records of db.messages that request r inserted.
Persisted(r) == {i \in 1..Len(messages) : messages[i].id = r}

NewMessageEmits(r) ==
  {i \in 1..Len(reqs[r].emits) : reqs[r].emits[i].event = "new_message"}

\* C1: a create_message submission never stores more than one record nor
\* broadcasts more than once; one that returns its message has stored exactly
\* one record and broadcast exactly one new_message, to the room named by the
\* message's conversation_id.
C1_OnePersistOneBroadcast ==
  \A r \in Humans :
    /\ Cardinality(Persisted(r)) <= 1
    /\ Len(reqs[r].emits) <= 1
    /\ reqs[r].result = "message" =>
         /\ Cardinality(Persisted(r)) = 1
         /\ Cardinality(NewMessageEmits(r)) = 1
         /\ Len(reqs[r].emits) = 1
         /\ reqs[r].emits[1].room = reqs[r].msg[1].conversation_id

C1_Witness ==
  \E r \in Humans, q \in Humans :
    /\ r # q
    /\ reqs[r].result = "message"
    /\ reqs[q].result = "message"
    /\ reqs[r].conv = reqs[q].conv

\* C2: a new_message broadcast for a message is made only once that message
\* is in the store; a submission (human or AI) whose insert failed has
\* stopped: it built no summary update, changed no conversation and
\* broadcast nothing.
C2_BroadcastOnlyAfterInsert ==
  /\ lastEmit.event = "new_message" =>
       \E i \in 1..Len(messages) : messages[i].id = lastEmit.msgid
  /\ \A r \in Reqs :
       /\ reqs[r].emits # <<>> => reqs[r].ins = "ok" /\ Persisted(r) # {}
       /\ reqs[r].ins = "fail" =>
            /\ reqs[r].pc = "done"
            /\ Persisted(r) = {}
            /\ reqs[r].upd = None
            /\ reqs[r].updRes = "none"
            /\ reqs[r].emits = <<>>
            /\ \A c \in ConvIds : conversations[c].writer # r

C2_Witness ==
  \E r \in Ais, q \in Humans :
    /\ reqs[r].ins = "fail"
    /\ reqs[q].emits # <<>>
    /\ lastEmit.msgid = q

\* C3: an AI reply whose generation failed stores no message and broadcasts
\* nothing; one whose generation succeeded stores at most one message, exactly
\* one once its insert has gone through, and that message has sender_id
\* "ai-assistant" and message_type "ai_response".
C3_AiReplyPersistence ==
  \A r \in Ais :
    /\ reqs[r].gen = "fail" =>
         /\ Persisted(r) = {}
         /\ reqs[r].msg = None
         /\ reqs[r].emits = <<>>
         /\ reqs[r].pc = "done"
    /\ Cardinality(Persisted(r)) <= 1
    /\ (reqs[r].gen = "ok" /\ reqs[r].ins = "ok") => Cardinality(Persisted(r)) = 1
    /\ reqs[r].result = "message" => Cardinality(Persisted(r)) = 1
    /\ \A i \in Persisted(r) :
         /\ messages[i].sender_id = "ai-assistant"
         /\ messages[i].message_type = "ai_response"
         /\ reqs[r].gen = "ok"

C3_Witness ==
  \E r \in Ais, q \in Ais :
    /\ reqs[r].gen = "fail"
    /\ reqs[q].result = "message"
    /\ Persisted(q) # {}

\* The messages of conversation c, in the order the store received them.
ConvMessages(c) == SelectSeq(messages, LAMBDA m : m.conversation_id = c)

\* Every request for conversation c has completed and returned its message.
AllAccepted(c) ==
  \A r \in Reqs :
    /\ reqs[r].pc \in {"idle", "done"}
    /\ reqs[r].conv = c => reqs[r].result = "message"

\* C7: once the submissions to a conversation have all been accepted, the
\* conversation's last_activity equals the timestamp of the message persisted
\* last for it.
C7_LastActivityIsLastTimestamp ==
  \A c \in ConvIds :
    (/\ conversations[c].exists
     /\ conversations[c].writer # 0
     /\ AllAccepted(c))
    => conversations[c].last_activity
         = ConvMessages(c)[Len(ConvMessages(c))].timestamp

\* The preview as the specification words it, character by character.
IsPreviewOf(p, content) ==
  IF Len(content) <= 50
    THEN p = content
    ELSE /\ Len(p) = 53
         /\ \A i \in 1..50 : p[i] = content[i]
         /\ \A i \in 51..53 : p[i] = "."

\* C8: the summary update of a human submission carries the preview of the
\* content (the content itself up to 50 characters, else its first 50
\* characters and "..."), a conversation last written by a human submission
\* has that preview as last_message, and the stored message has the whole
\* content.
C8_HumanPreview ==
  /\ \A r \in Humans :
       /\ reqs[r].upd # None =>
            IsPreviewOf(reqs[r].upd[1].last_message, reqs[r].content)
       /\ \A i \in Persisted(r) : messages[i].content = reqs[r].content
  /\ \A c \in ConvIds :
       conversations[c].writer \in Humans =>
         /\ conversations[c].last_message # None
         /\ IsPreviewOf(conversations[c].last_message[1],
                        reqs[conversations[c].writer].content)

C8_Witness ==
  \E c \in ConvIds, d \in ConvIds :
    /\ conversations[c].writer \in Humans
    /\ conversations[d].writer \in Humans
    /\ Len(reqs[conversations[c].writer].content) = 50
    /\ Len(reqs[conversations[d].writer].content) > 50
    /\ Persisted(conversations[d].writer) # {}

\* A human submission h and an AI reply a with the same text for the same
\* conversation, both past the summary update.
SamePair(h, a) ==
  /\ h \in Humans
  /\ a \in Ais
  /\ reqs[h].upd # None
  /\ reqs[a].upd # None
  /\ reqs[h].conv = reqs[a].conv
  /\ reqs[h].msg[1].content = reqs[a].msg[1].content

EmitStep == lastEmit' # lastEmit

RoomBroadcast == lastEmit'.event \in {"new_message", "user_typing"}

\* The sids whose membership of room was last changed by a join.
Joined(room) == {c \in Sids : lastOp[c][room] = "join"}

\* C4: a sid that is not connected is in no room, a sid that disconnected
\* while a member of a room stays out of it until it joins again, and no
\* new_message or user_typing broadcast targets such a sid.
C4_NoResidualMembership ==
  /\ [](\A c \in Sids :
          /\ c \notin connected => \A n \in RoomNames : c \notin rooms[n]
          /\ \A r \in ConvIds : lastOp[c][r] = "disc" => c \notin rooms[r])
  /\ [][(EmitStep /\ RoomBroadcast) =>
          \A c \in Sids :
            (c \notin connected \/ lastOp[c][lastEmit'.room] = "disc")
              => c \notin lastEmit'.targets]_vars

C4_Witness ==
  \E c \in Sids, d \in Sids :
    /\ c # d
    /\ lastOp[c]["c1"] = "disc"
    /\ c \in connected
    /\ lastEmit.event = "new_message"
    /\ lastEmit.room = "c1"
    /\ lastEmit.targets = {d}

\* C5: a new_message or user_typing broadcast reaches exactly the sids whose
\* last membership event on the addressed room is a join (joined, and neither
\* left nor disconnected since), minus the excluded sid.
C5_BroadcastToCurrentMembers ==
  [][(EmitStep /\ RoomBroadcast) =>
       lastEmit'.targets = Joined(lastEmit'.room) \ {lastEmit'.skip}]_vars

C5_Witness ==
  \E c \in Sids, d \in Sids :
    /\ lastEmit.event = "new_message"
    /\ lastEmit.targets = {c}
    /\ lastOp[d][lastEmit.room] = "join_leave"
    /\ d \in connected

\* C6: the user_typing broadcast of a typing_start or typing_stop from sid A
\* for room R excludes A and reaches every other sid currently joined to R
\* and nobody else, whether or not A is joined to R.
C6_TypingExcludesSender ==
  [][(EmitStep /\ lastEmit'.event = "user_typing") =>
       /\ lastEmit'.origin \in connected
       /\ lastEmit'.origin \notin lastEmit'.targets
       /\ lastEmit'.targets = Joined(lastEmit'.room) \ {lastEmit'.origin}]_vars

C6_Witness ==
  /\ lastEmit.event = "user_typing"
  /\ lastEmit.typing
  /\ lastOp[lastEmit.origin][lastEmit.room] = "join"
  /\ lastEmit.targets # {}

\* C10: after join_conversation(c, r) followed by leave_conversation(c, r),
\* c is not a member of r, whatever the other sids did in between.
C10_JoinThenLeave ==
  \A c \in Sids, r \in ConvIds : lastOp[c][r] = "join_leave" => c \notin rooms[r]

C10_Witness ==
  \E c \in Sids, d \in Sids :
    /\ lastOp[c]["c1"] = "join_leave"
    /\ lastOp[d]["c1"] = "join"
    /\ d \in rooms["c1"]

\* C11: user_status_changed is emitted only by an update_user_status whose
\* store write has gone through, carries that request's user_id and status,
\* and reaches every open session whatever rooms it is in; a request whose
\* write failed has ended without emitting.
C11_StatusPersistedThenBroadcast ==
  /\ [](\A q \in StatusReqs :
          /\ sreqs[q].emitted => sreqs[q].write = "ok"
          /\ sreqs[q].write = "fail" =>
               /\ ~sreqs[q].emitted
               /\ sreqs[q].pc = "done"
               /\ lastEmit.event # "user_status_changed")
  /\ [][(EmitStep /\ lastEmit'.event = "user_status_changed") =>
          /\ lastEmit'.targets = connected
          /\ \E q \in StatusReqs :
               /\ sreqs[q].write = "ok"
               /\ ~sreqs[q].emitted
               /\ sreqs'[q].emitted
               /\ lastEmit'.user_id = sreqs[q].user_id
               /\ lastEmit'.status = sreqs[q].status
               /\ users[sreqs[q].user_id].exists =>
                    users[sreqs[q].user_id].status = sreqs[q].status]_vars

C11_Witness ==
  /\ lastEmit.event = "user_status_changed"
  /\ lastEmit.targets = Sids
  /\ users[lastEmit.user_id].status = "online"
  /\ \E c \in Sids, d \in Sids :
       /\ lastOp[c]["c1"] = "join"
       /\ \A r \in ConvIds : lastOp[d][r] = "none"

\* C12: a store write failure during a message submission, human or AI,
\* ends the request with a server-side failure (HTTP 500), not with the
\* error payload of a failed generation, and nothing was broadcast.
C12_StoreFailureIsServerError ==
  \A r \in Reqs :
    (reqs[r].ins = "fail" \/ reqs[r].updRes = "fail") =>
      /\ reqs[r].result = "http_500"
      /\ reqs[r].emits = <<>>

\* C13: an AI reply request never ends with a failure status: it returns the
\* stored AI message, or the error payload; a failed generation gives the
\* error payload and no message, and a generation followed by successful
\* store writes gives the stored message.
C13_AiReplyAlwaysSuccessShaped ==
  \A r \in Ais :
    /\ reqs[r].result \in {"none", "message", "error_payload"}
    /\ reqs[r].pc = "done" <=> reqs[r].result # "none"
    /\ reqs[r].gen = "fail" =>
         /\ reqs[r].result = "error_payload"
         /\ reqs[r].msg = None
         /\ Persisted(r) = {}
    /\ reqs[r].result = "message" =>
         /\ reqs[r].gen = "ok"
         /\ Cardinality(Persisted(r)) = 1
    /\ (reqs[r].pc = "done" /\ reqs[r].gen = "ok" /\ reqs[r].ins = "ok"
          /\ reqs[r].updRes = "ok") => reqs[r].result = "message"

C13_Witness ==
  \E r \in Ais, q \in Ais :
    /\ reqs[r].gen = "fail"
    /\ reqs[r].result = "error_payload"
    /\ reqs[q].ins = "fail"
    /\ reqs[q].result = "error_payload"

\* C14: no step lowers the last_activity of a conversation.
C14_LastActivityMonotonic ==
  [][\A c \in ConvIds :
       (conversations[c].exists /\ conversations'[c].exists) =>
         conversations'[c].last_activity >= conversations[c].last_activity]_vars

\* C15: every stored message names a conversation that exists in the store.
C15_MessagesReferenceConversations ==
  \A i \in 1..Len(messages) : conversations[messages[i].conversation_id].exists

\* A step that closes a session.
DisconnectStep == connected' # connected /\ connected' \subseteq connected

\* The fields of a request that the handler itself reads or writes.
Progress(r) == [reqs[r] EXCEPT !.cut = FALSE]

\* C16: closing a session leaves every request as it was; an AI reply whose
\* generation was in progress when a session closed still ends, with the
\* answer of the generation call; if generation and both store writes
\* succeeded its message is stored and was broadcast as new_message, and the
\* broadcast reached the members the room had at that time.
C16_NoCancellationOfAiReply ==
  /\ [][DisconnectStep =>
          /\ \A r \in Reqs : Progress(r)' = Progress(r)
          /\ messages' = messages]_vars
  /\ \A r \in RoomReqs :
       (reqs[r].pc = "generate" /\ reqs[r].cut) ~> (reqs[r].pc = "done")
  /\ [](\A r \in Ais :
          reqs[r].pc = "done" =>
            /\ reqs[r].gen \in {"ok", "fail"}
            /\ (reqs[r].gen = "ok" /\ reqs[r].ins = "ok" /\ reqs[r].updRes = "ok") =>
                 /\ Cardinality(Persisted(r)) = 1
                 /\ reqs[r].emits = <<[event |-> "new_message",
                                       room |-> reqs[r].conv, skip |-> NoSid]>>)
  /\ [][(EmitStep /\ lastEmit'.event = "new_message") =>
          lastEmit'.targets = Joined(lastEmit'.room)]_vars

C16_Witness ==
  \E r \in Ais, c \in Sids, d \in Sids :
    /\ reqs[r].cut
    /\ reqs[r].result = "message"
    /\ lastEmit.event = "new_message"
    /\ lastEmit.msgid = r
    /\ lastEmit.targets = {d}
    /\ lastOp[c][reqs[r].conv] = "disc"
    /\ c \notin connected

\* C17: a step that closes a session changes no user, conversation or
\* message record.
C17_DisconnectKeepsDurableState ==
  [][DisconnectStep =>
       /\ users' = users
       /\ conversations' = conversations
       /\ messages' = messages]_vars

C17_Witness ==
  \E c \in Sids :
    /\ lastEmit.event = "user_status_changed"
    /\ c \in lastEmit.targets
    /\ c \notin connected
    /\ users[lastEmit.user_id].exists
    /\ users[lastEmit.user_id].status = "online"

\* C18: the status of every stored user is online, offline or typing.
C18_StatusInDocumentedSet ==
  \A u \in UserIds :
    users[u].exists => users[u].status \in {"online", "offline", "typing"}

\* C19: joined_conversation goes to the joining sid alone, names a real
\* conversation id, and is sent once the sid is in that room; a sid whose
\* membership was last changed by a join is in the room, and every
\* new_message broadcast to the room targets it.
C19_AckAfterMembership ==
  /\ [](\A c \in Sids, r \in ConvIds :
          lastOp[c][r] = "join" => (c \in connected /\ c \in rooms[r]))
  /\ [][EmitStep =>
          /\ lastEmit'.event = "joined_conversation" =>
               /\ lastEmit'.targets = {lastEmit'.origin}
               /\ lastEmit'.conversation_id \in ConvIds
               /\ lastEmit'.origin \in rooms'[lastEmit'.conversation_id]
               /\ lastOp'[lastEmit'.origin][lastEmit'.conversation_id] = "join"
          /\ lastEmit'.event = "new_message" =>
               Joined(lastEmit'.room) \subseteq lastEmit'.targets]_vars

C19_Witness ==
  /\ lastEmit.event = "new_message"
  /\ lastEmit.targets = Sids
  /\ \A c \in Sids : lastOp[c][lastEmit.room] = "join"

\* C20: a submission (human or AI) whose summary update failed after its
\* insert went through has ended with its message still stored, no
\* conversation written by it, and nothing broadcast.
C20_UpdateFailureKeepsMessage ==
  \A r \in Reqs :
    reqs[r].updRes = "fail" =>
      /\ reqs[r].pc = "done"
      /\ reqs[r].ins = "ok"
      /\ Cardinality(Persisted(r)) = 1
      /\ \A i \in Persisted(r) : messages[i] = reqs[r].msg[1]
      /\ \A c \in ConvIds : conversations[c].writer # r
      /\ reqs[r].emits = <<>>
      /\ lastEmit.msgid # r

C20_Witness ==
  \E h \in Humans, a \in Ais :
    /\ reqs[h].updRes = "fail"
    /\ reqs[a].updRes = "fail"
    /\ reqs[h].conv = "c1"
    /\ conversations["c1"].writer = 0
    /\ conversations["c1"].last_message = None
====
